---- MODULE Spec2Model ----
(***************************************************************************)
(* pynrfjprog MultiAPI: a host-side proxy that runs one API instance in a  *)
(* worker process and forwards every call to it over two queues.           *)
(*                                                                         *)
(*   host thread:  CmdQueue.put(_Command(name, args))                      *)
(*                 ack = CmdAckQueue.get(); raise / return                 *)
(*   worker:       api = API.API(...); loop: cmd = CmdQueue.get();         *)
(*                 run api_functions[cmd.cmd] on cmd.args; CmdAckQueue.put *)
(*                                                                         *)
(* Python values are records [ty, i, s, l]; exception objects are records  *)
(* [ty, cls, args, err_code].  Objects cross the process boundary pickled. *)
(***************************************************************************)
EXTENDS Integers, Sequences, FiniteSets, TLC

VARIABLES
    CmdQueue,      \* p -> multiprocessing.Queue host -> worker (pickled _Command)
    CmdAckQueue,   \* p -> multiprocessing.Queue worker -> host (pickled _CommandAck)
    runner,        \* p -> the multiprocessing.Process of the proxy
    worker,        \* p -> position and locals of _runner inside the process
    host,          \* t -> position and locals of a host thread
    issued,        \* history: p -> number of commands put on CmdQueue
    executed,      \* history: p -> number of commands the worker took from CmdQueue
    received,      \* history: p -> number of acks the host took from CmdAckQueue
    instantiated   \* LowLevel.API._instantiated in the host process

vars == <<CmdQueue, CmdAckQueue, runner, worker, host, issued, executed, received, instantiated>>

(***************************************************************************)
(* Bounds of the model.                                                    *)
(***************************************************************************)
\* forwarded calls one host thread may start
MaxCalls == 2

Proxies == {"A", "B"}
Threads == {"t1", "t2"}

(***************************************************************************)
(* Python values.                                                          *)
(***************************************************************************)
PyNone == [ty |-> "NoneType", i |-> 0, s |-> "", l |-> <<>>]
PyInt(n) == [ty |-> "int", i |-> n, s |-> "", l |-> <<>>]
PyBool(b) == [ty |-> "bool", i |-> IF b THEN 1 ELSE 0, s |-> "", l |-> <<>>]
PyStr(x) == [ty |-> "str", i |-> 0, s |-> x, l |-> <<>>]
PyList(xs) == [ty |-> "list", i |-> 0, s |-> "", l |-> xs]
\* the proxy object itself, as returned by MultiAPI.__enter__
PySelf(p) == [ty |-> "MultiAPI", i |-> 0, s |-> p, l |-> <<>>]

\* the API instance that lives in the worker
PySession == [ty |-> "API", i |-> 0, s |-> "", l |-> <<>>]

Digit(d) == CASE d = 0 -> "0" [] d = 1 -> "1" [] d = 2 -> "2" [] d = 3 -> "3"
              [] d = 4 -> "4" [] d = 5 -> "5" [] d = 6 -> "6" [] d = 7 -> "7"
              [] d = 8 -> "8" [] d = 9 -> "9"

RECURSIVE NatToStr(_)
NatToStr(n) == IF n < 10 THEN Digit(n) ELSE NatToStr(n \div 10) \o Digit(n % 10)

\* str(v) as '{}'.format(v) renders it
PyFormat(v) ==
    CASE v.ty = "int" -> IF v.i < 0 THEN "-" \o NatToStr(-v.i) ELSE NatToStr(v.i)
      [] v.ty = "str" -> v.s
      [] v.ty = "NoneType" -> "None"
      [] v.ty = "bool" -> IF v.i = 1 THEN "True" ELSE "False"
      [] OTHER -> "<object>"

(***************************************************************************)
(* API.NrfjprogdllErr and API.APIError.                                    *)
(***************************************************************************)
NrfjprogdllErr ==
    { <<0, "SUCCESS">>, <<-1, "OUT_OF_MEMORY">>, <<-2, "INVALID_OPERATION">>,
      <<-3, "INVALID_PARAMETER">>, <<-4, "INVALID_DEVICE_FOR_OPERATION">>,
      <<-5, "WRONG_FAMILY_FOR_DEVICE">>, <<-10, "EMULATOR_NOT_CONNECTED">>,
      <<-11, "CANNOT_CONNECT">>, <<-12, "LOW_VOLTAGE">>,
      <<-13, "NO_EMULATOR_CONNECTED">>, <<-20, "NVMC_ERROR">>,
      <<-90, "NOT_AVAILABLE_BECAUSE_PROTECTION">>,
      <<-100, "JLINKARM_DLL_NOT_FOUND">>,
      <<-101, "JLINKARM_DLL_COULD_NOT_BE_OPENED">>,
      <<-102, "JLINKARM_DLL_ERROR">>, <<-103, "JLINKARM_DLL_TOO_OLD">>,
      <<-150, "NRFJPROG_SUB_DLL_NOT_FOUND">>,
      <<-151, "NRFJPROG_SUB_DLL_COULD_NOT_BE_OPENED">>,
      <<-255, "NOT_IMPLEMENTED_ERROR">> }

\* err_code in [member.value for name, member in NrfjprogdllErr.__members__.items()]
IsErrMember(v) == v.ty = "int" /\ \E m \in NrfjprogdllErr : m[1] = v.i

ErrName(n) == (CHOOSE m \in NrfjprogdllErr : m[1] = n)[2]

\* an exception object: class, args tuple, and the instance __dict__ (err_code)
Exc(cls, args, code) == [ty |-> "exception", cls |-> cls, args |-> args, err_code |-> code]

\* the instance has no err_code attribute
NoAttr == [ty |-> "<unset>", i |-> 0, s |-> "", l |-> <<>>]

\* APIError.__init__(self, err_code)
APIError(err_code) ==
    LET err_str ==
          IF IsErrMember(err_code)
          THEN "An error was reported by NRFJPROG DLL: " \o PyFormat(err_code)
               \o " " \o ErrName(err_code.i) \o "."
          ELSE "An error was reported by NRFJPROG DLL: " \o PyFormat(err_code) \o "."
    IN Exc("APIError", <<PyStr(err_str)>>, err_code)

\* the built-in exceptions used: the message is the only argument
BuiltinError(cls, msg) == Exc(cls, <<PyStr(msg)>>, NoAttr)

\* str(e) of an exception with one argument
Message(e) == PyFormat(e.args[1])

(***************************************************************************)
(* Pickling: multiprocessing.Queue.put pickles the object, get unpickles   *)
(* it.  A plain value travels by content; an exception travels as          *)
(* (class, args, __dict__) and is rebuilt by calling class( *args ), then  *)
(* updating the instance __dict__.                                         *)
(***************************************************************************)
Pickle(o) ==
    IF o.ty = "exception"
    THEN [wire |-> "reduce", cls |-> o.cls, args |-> o.args, state |-> o.err_code]
    ELSE [wire |-> "value", cls |-> o.ty, args |-> <<o>>, state |-> NoAttr]

\* cls( *args ) on the receiving side
Construct(cls, args) ==
    IF cls = "APIError" THEN APIError(args[1]) ELSE Exc(cls, args, NoAttr)

Unpickle(w) ==
    IF w.wire = "reduce"
    THEN LET obj == Construct(w.cls, w.args)
         IN  IF w.state = NoAttr THEN obj ELSE [obj EXCEPT !.err_code = w.state]
    ELSE w.args[1]

\* a command that lists the arguments last to first
CommandReversed(cmd, args) ==
    [cmd |-> cmd, args |-> [k \in DOMAIN args |-> args[Len(args) + 1 - k]]]

\* _Command(cmd, *args)
Command(cmd, args) == [cmd |-> cmd, args |-> args]

\* _CommandAck(exception=None, result=None)
CommandAck(exception, result) == [exception |-> exception, result |-> result]

PickleAck(ack) == [exception |-> Pickle(ack.exception), result |-> Pickle(ack.result)]
UnpickleAck(w) == CommandAck(Unpickle(w.exception), Unpickle(w.result))

PickleCommand(c) == [cmd |-> c.cmd, args |-> [k \in DOMAIN c.args |-> Pickle(c.args[k])]]
UnpickleCommand(w) == Command(w.cmd, [k \in DOMAIN w.args |-> Unpickle(w.args[k])])

(***************************************************************************)
(* Queues.  An entry is the pickled object and a history part that no code *)
(* reads: the tag (the number, from 1, of the put on CmdQueue it stems     *)
(* from; tag 0 stands for no put)                                          *)
(* and, for an ack, the outcome the operation had inside the worker.       *)
(***************************************************************************)
\* a put that leaves the entry in the queue twice
QueuePutTwice(q, obj, tag, src) ==
    Append(Append(q, [obj |-> obj, tag |-> tag, src |-> src]),
           [obj |-> obj, tag |-> tag, src |-> src])

QueuePut(q, obj, tag, src) == Append(q, [obj |-> obj, tag |-> tag, src |-> src])
\* a queue that hands out its newest entry first
QueueBack(q) == q[Len(q)]

\* a get that leaves the entry in the queue, to be taken again
QueueKeep(q) == q

\* pickle.dumps(o) succeeds; the API instance holds the loaded ctypes library, which
\* pickle refuses
Picklable(o) == o.ty # "API"

\* CmdAckQueue.put(ack): the ack is pickled by the feeder thread of the queue; an
\* ack that cannot be pickled is dropped there and put() has returned all the same
QueueSend(q, ack, tag, src) ==
    IF Picklable(ack.exception) /\ Picklable(ack.result)
    THEN QueuePut(q, PickleAck(ack), tag, src)
    ELSE q

\* the entry Queue.get() returns, and the queue it leaves
QueueFront(q) == Head(q)
QueueRest(q) == Tail(q)

(***************************************************************************)
(* The API instance in the worker (API.py).  The DLL is opaque: a call     *)
(* returns SUCCESS with some data, or one of the error codes.              *)
(***************************************************************************)
\* result codes the DLL hands back: SUCCESS, a member of NrfjprogdllErr, a non-member
DllResults == {0, -1, -7}
\* 32-bit words and flags the device hands back
DeviceWords == {0, 42}

Ret(v) == [kind |-> "return", val |-> v]
Raise(e) == [kind |-> "raise", val |-> e]
NoOutcome == [kind |-> "none", val |-> PyNone]

\* API._is_u32: 0 <= value <= 0xFFFFFFFF, written with 16-bit halves
IsU32(v) == v.ty \in {"int", "bool"} /\ 0 <= v.i /\ v.i \div 65536 < 65536
\* API._is_bool
IsBool(v) == v.ty = "bool" \/ (v.ty = "int" /\ 0 <= v.i /\ v.i <= 1)

\* result != NrfjprogdllErr.SUCCESS: raise APIError(result)
DllChecked(result, v) == IF result # 0 THEN Raise(APIError(PyInt(result))) ELSE Ret(v)

\* the methods of API that the model invokes: the set of what a call may do
ApiCall(cmd, args) ==
    CASE cmd = "open" ->
           { DllChecked(r, PyNone) : r \in DllResults }
      [] cmd = "close" ->
           { Ret(PyNone) }
      [] cmd = "read_u32" ->
           IF ~IsU32(args[1])
           THEN { Raise(BuiltinError("ValueError",
                    "The addr parameter must be an unsigned 32-bit value.")) }
           ELSE { DllChecked(r, PyInt(d)) : r \in DllResults, d \in DeviceWords }
      [] cmd = "write_u32" ->
           IF ~IsU32(args[1])
           THEN { Raise(BuiltinError("ValueError",
                    "The addr parameter must be an unsigned 32-bit value.")) }
           ELSE IF ~IsU32(args[2])
           THEN { Raise(BuiltinError("ValueError",
                    "The data parameter must be an unsigned 32-bit value.")) }
           ELSE IF ~IsBool(args[3])
           THEN { Raise(BuiltinError("ValueError",
                    "The control parameter must be a boolean value.")) }
           ELSE { DllChecked(r, PyNone) : r \in DllResults }
      [] cmd = "read" ->
           IF ~IsU32(args[1])
           THEN { Raise(BuiltinError("ValueError",
                    "The addr parameter must be an unsigned 32-bit value.")) }
           ELSE IF ~IsU32(args[2])
           THEN { Raise(BuiltinError("ValueError",
                    "The data_len parameter must be an unsigned 32-bit value.")) }
           ELSE { DllChecked(r, PyList([k \in 1..args[2].i |-> 0])) : r \in DllResults }
      [] cmd = "is_halted" ->
           { DllChecked(r, PyBool(b)) : r \in DllResults, b \in BOOLEAN }
      [] cmd = "__enter__" ->
           { DllChecked(r, PySession) : r \in DllResults }
      [] cmd = "__exit__" ->
           { Ret(PyNone) }

\* the public operations of API that the model invokes
ApiFunctions == {"open", "close", "read_u32", "write_u32", "read", "is_halted"}

\* dict(inspect.getmembers(api, inspect.ismethod)): the names the worker can run
ApiMembers == ApiFunctions \cup {"__enter__", "__exit__"}

\* a proxy that forwards any name whatever
ForwardAnyName == {"open", "close", "read_u32", "write_u32", "read", "is_halted", "bogus"}

\* the forwarding methods class MultiAPI defines
MultiAPIMethods == {"open", "close", "read_u32", "write_u32", "read", "is_halted"}

(***************************************************************************)
(* State after import: no proxy has been constructed yet.                  *)
(***************************************************************************)
\* names of API.DeviceFamily
DeviceFamily == {"NRF51", "NRF52"}
\* device_family arguments the host constructs proxies with
FamilyArgs == {"NRF52", "NRF99"}

NoCommand == Command("-", <<>>)

\* args: the device_family in the args of the Process; starts: times start() was called
NoProcess == [state |-> "none", daemon |-> FALSE, sigterm |-> FALSE, args |-> "-", starts |-> 0]
\* exit: why the process ended; raised: history, some command raised in the worker
NoWorker == [pc |-> "none", family |-> "-", apis |-> 0, opened |-> FALSE,
             cmd |-> NoCommand, tag |-> 0, exit |-> "-", raised |-> FALSE]
\* args: the arguments of the method the thread is in; block: where the thread is
\* in a with-statement on the proxy; exc: the exception type handed to __exit__
IdleHost == [pc |-> "idle", frame |-> "-", proxy |-> "-", calls |-> 0, outcome |-> NoOutcome,
             tag |-> 0, got |-> 0, src |-> NoOutcome, args |-> <<>>, block |-> "-", exc |-> "-"]

Init ==
    /\ CmdQueue = [p \in Proxies |-> <<>>]
    /\ CmdAckQueue = [p \in Proxies |-> <<>>]
    /\ runner = [p \in Proxies |-> NoProcess]
    /\ worker = [p \in Proxies |-> NoWorker]
    /\ host = [t \in Threads |-> IdleHost]
    /\ issued = [p \in Proxies |-> 0]
    /\ executed = [p \in Proxies |-> 0]
    /\ received = [p \in Proxies |-> 0]
    /\ instantiated = FALSE

\* queue objects that are attributes of the class: every instance uses the same pair
ClassQueues(p) == "A"

\* self.CmdQueue / self.CmdAckQueue: the pair of queues instance p made in __init__
OwnQueues(p) == p

\* Process.is_alive(): started and not yet exited
IsAlive(proc) == proc.state = "started"

Constructed(p) == runner[p].state # "none"

\* the proxy object is unreferenced: its __del__ has been entered
Discarded(p) == \E t \in Threads : host[t].frame = "__del__" /\ host[t].proxy = p

(***************************************************************************)
(* Host side: class MultiAPI.                                              *)
(***************************************************************************)
\* multiprocessing.Process(target=self._runner, args=(device_family, ...)): not started
Process(proc, device_family) ==
    [proc EXCEPT !.state = "initial", !.daemon = FALSE, !.sigterm = FALSE,
                 !.args = device_family]

\* a constructor without the line that sets daemon
KeepDaemon(proc) == proc

\* self.runner.daemon = True: the flag can only be set on a process not yet started
SetDaemon(proc) == IF proc.state = "initial" THEN [proc EXCEPT !.daemon = TRUE] ELSE proc

\* self.runner.start()
Start(proc) == [proc EXCEPT !.state = "started", !.starts = @ + 1]

\* a constructor that starts the process and then waits for a first ack of the worker
MultiAPIInitHandshake(t, p, device_family) ==
    /\ host[t].pc = "idle"
    /\ ~Constructed(p)
    /\ CmdQueue' = [CmdQueue EXCEPT ![p] = <<>>]
    /\ CmdAckQueue' = [CmdAckQueue EXCEPT ![p] = <<>>]
    /\ runner' = [runner EXCEPT ![p] = [state |-> "started", daemon |-> TRUE, sigterm |-> FALSE,
                                          args |-> device_family, starts |-> @.starts + 1]]
    /\ worker' = [worker EXCEPT ![p] = [NoWorker EXCEPT !.pc = "setup"]]
    /\ host' = [host EXCEPT ![t] = [@ EXCEPT !.pc = "wait", !.frame = "__init__", !.proxy = p]]
    /\ UNCHANGED <<issued, executed, received, instantiated>>

\* MultiAPI.__init__: two queues, the process, daemon = True, start()
MultiAPIInit(t, p, device_family) ==
    /\ host[t].pc = "idle"
    /\ ~Constructed(p)
    /\ CmdQueue' = [CmdQueue EXCEPT ![OwnQueues(p)] = <<>>]
    /\ CmdAckQueue' = [CmdAckQueue EXCEPT ![OwnQueues(p)] = <<>>]
    /\ runner' = [runner EXCEPT ![p] = Start(SetDaemon(Process(@, device_family)))]
    /\ worker' = [worker EXCEPT ![p] = [NoWorker EXCEPT !.pc = "setup"]]
    /\ UNCHANGED <<host, issued, executed, received, instantiated>>

\* how multiprocessing starts a Process where MultiAPI does not run on Windows
StartMethods == {"fork"}

\* the host constructs a LowLevel.API of its own: API._instantiated = True
LowLevelInit(t) ==
    /\ host[t].pc = "idle"
    /\ instantiated' = TRUE
    /\ UNCHANGED <<CmdQueue, CmdAckQueue, runner, worker, host, issued, executed, received>>

\* first line of every forwarding method: self.CmdQueue.put(_Command(name, ...));
\* the thread then stands in _wait_for_completion.  frame is the method of MultiAPI
\* the thread is in.
ForwardFrom(t, p, h, frame, cmd, args) ==
    LET tag == issued[p] + 1 IN
    /\ CmdQueue' = [CmdQueue EXCEPT ![OwnQueues(p)] =
                        QueuePut(@, PickleCommand(Command(cmd, args)), tag, NoOutcome)]
    /\ issued' = [issued EXCEPT ![p] = tag]
    /\ host' = [host EXCEPT ![t] = [h EXCEPT !.pc = "wait", !.frame = frame, !.proxy = p,
                                              !.outcome = NoOutcome, !.tag = tag, !.got = 0,
                                              !.src = NoOutcome, !.args = args]]
    /\ UNCHANGED <<CmdAckQueue, runner, worker, executed, received, instantiated>>

\* a forwarding method called by thread t
Forward(t, p, frame, cmd, args) ==
    ForwardFrom(t, p, [host[t] EXCEPT !.calls = @ + 1], frame, cmd, args)

\* proxy.name(...) where class MultiAPI has no attribute of that name
NoSuchAttribute(t, p, name) ==
    /\ host' = [host EXCEPT ![t] = [@ EXCEPT !.pc = "idle", !.frame = name, !.proxy = p,
                    !.calls = @ + 1,
                    !.outcome = Raise(BuiltinError("AttributeError",
                        "'MultiAPI' object has no attribute '" \o name \o "'")),
                    !.tag = 0, !.got = 0, !.src = NoOutcome, !.args = <<>>]]
    /\ UNCHANGED <<CmdQueue, CmdAckQueue, runner, worker, issued, executed, received, instantiated>>

\* what host threads invoke on a proxy: <<name, args>>
Invocations ==
    { <<"read_u32", <<PyInt(0)>> >>,
      <<"read_u32", <<PyInt(-1)>> >>,
      <<"write_u32", <<PyInt(0), PyInt(48879), PyBool(TRUE)>> >>,
      <<"read", <<PyInt(0), PyInt(0)>> >>,
      <<"is_halted", <<>> >>,
      <<"bogus", <<>> >> }

\* a proxy that runs open and close on an API instance from the host process
InvokeInHost(t, p, name, args) ==
    /\ host[t].pc = "idle"
    /\ host[t].calls < MaxCalls
    /\ Constructed(p) /\ ~Discarded(p)
    /\ IF name \in {"open", "close"}
       THEN /\ host' = [host EXCEPT ![t] = [@ EXCEPT !.frame = name, !.proxy = p,
                             !.calls = @ + 1, !.outcome = Ret(PyNone), !.tag = 0,
                             !.got = 0, !.src = NoOutcome, !.args = args]]
            /\ worker' = [worker EXCEPT ![p] = [@ EXCEPT !.opened = (name = "open")]]
            /\ UNCHANGED <<CmdQueue, CmdAckQueue, runner, issued, executed, received,
                           instantiated>>
       ELSE IF name \in MultiAPIMethods
       THEN Forward(t, p, name, name, args)
       ELSE NoSuchAttribute(t, p, name)

\* a host thread invokes proxy.name(args)
Invoke(t, p, name, args) ==
    /\ host[t].pc = "idle"
    /\ host[t].calls < MaxCalls
    /\ Constructed(p) /\ ~Discarded(p)
    /\ IF name \in MultiAPIMethods
       THEN Forward(t, p, name, name, args)
       ELSE NoSuchAttribute(t, p, name)

\* MultiAPI.__enter__: self.open(), then return self
Enter(t, p) ==
    /\ host[t].pc = "idle"
    /\ host[t].calls < MaxCalls
    /\ Constructed(p) /\ ~Discarded(p)
    /\ Forward(t, p, "__enter__", "open", <<>>)

\* an __exit__ that closes only when the block ended without an exception
ClosesOnNormalExit(type) == type = "None"

\* __exit__(self, type, value, traceback) calls self.close() whatever type is
ClosesOn(type) == TRUE

\* MultiAPI.__exit__(type, ...) entered by thread t, whose locals are h:
\* self.close(), then self.runner.terminate()
MultiAPIExit(t, p, h, type) ==
    IF ClosesOn(type)
    THEN ForwardFrom(t, p, h, "__exit__", "close", <<>>)
    ELSE /\ host' = [host EXCEPT ![t] = [h EXCEPT !.pc = "terminate", !.frame = "__exit__",
                                                   !.proxy = p, !.outcome = NoOutcome,
                                                   !.tag = 0, !.got = 0, !.src = NoOutcome,
                                                   !.args = <<>>]]
         /\ UNCHANGED <<CmdQueue, CmdAckQueue, runner, worker, issued, executed, received,
                        instantiated>>

\* proxy.__exit__(None, None, None) called directly
Exit(t, p) ==
    /\ host[t].pc = "idle"
    /\ host[t].calls < MaxCalls
    /\ Constructed(p) /\ ~Discarded(p)
    /\ MultiAPIExit(t, p, [host[t] EXCEPT !.calls = @ + 1], "None")

\* the last reference to the proxy is dropped while no thread is inside one of its
\* methods: MultiAPI.__del__ starts with "if self.runner.is_alive():"
Del(t, p) ==
    /\ host[t].pc = "idle"
    /\ Constructed(p) /\ ~Discarded(p)
    /\ \A u \in Threads : host[u].pc = "idle" \/ host[u].proxy # p
    /\ host' = [host EXCEPT ![t] =
                   [@ EXCEPT !.pc = IF IsAlive(runner[p]) THEN "close" ELSE "idle",
                             !.frame = "__del__", !.proxy = p,
                             !.outcome = IF IsAlive(runner[p]) THEN NoOutcome ELSE Ret(PyNone),
                             !.tag = 0, !.got = 0, !.src = NoOutcome, !.args = <<>>]]
    /\ UNCHANGED <<CmdQueue, CmdAckQueue, runner, worker, issued, executed, received,
                   instantiated>>

\* __del__ found the process alive: self.close()
DelClose(t) ==
    /\ host[t].pc = "close"
    /\ ForwardFrom(t, host[t].proxy, host[t], "__del__", "close", <<>>)

\* commands put on the public attribute CmdQueue without a forwarding method
RawCommands ==
    { <<"__enter__", <<>> >>, <<"bogus", <<>> >>, <<"read_u32", <<PyInt(0)>> >> }

\* proxy.CmdQueue.put(_Command(cmd, args)); proxy._wait_for_completion()
RawCall(t, p, cmd, args) ==
    /\ host[t].pc = "idle"
    /\ host[t].calls < MaxCalls
    /\ Constructed(p) /\ ~Discarded(p)
    /\ Forward(t, p, "_wait_for_completion", cmd, args)

\* "with proxy as api:" reaches the proxy: Python calls proxy.__enter__()
WithEnter(t, p) ==
    /\ host[t].pc = "idle"
    /\ host[t].block = "-"
    /\ Constructed(p) /\ ~Discarded(p)
    /\ ForwardFrom(t, p, [host[t] EXCEPT !.block = "enter"], "__enter__", "open", <<>>)

\* a call in the body of the with-block; no statement of the body follows one that raised
WithBody(t, p, name, args) ==
    /\ host[t].block = "body"
    /\ host[t].proxy = p
    /\ host[t].outcome.kind # "raise"
    /\ Invoke(t, p, name, args)

\* the body is left, by its end or by the exception of its last call: Python calls
\* proxy.__exit__(type, value, traceback), type being None when nothing was raised
WithExit(t, p) ==
    LET type == IF host[t].outcome.kind = "raise" THEN host[t].outcome.val.cls ELSE "None" IN
    /\ host[t].pc = "idle"
    /\ host[t].block = "body"
    /\ host[t].proxy = p
    /\ MultiAPIExit(t, p, [host[t] EXCEPT !.block = "exit", !.exc = type], type)

\* _wait_for_completion testing the result for truth instead of "is not None"
CompletionTruthy(ack) ==
    IF ack.exception # PyNone THEN Raise(ack.exception)
    ELSE IF ack.result \notin {PyNone, PyInt(0), PyBool(FALSE), PyList(<<>>), PyStr("")}
         THEN Ret(ack.result)
    ELSE Ret(PyNone)

\* _wait_for_completion, from the ack on: raise the exception, or return the
\* result when it is not None, or fall off the end (None)
Completion(ack) ==
    IF ack.exception # PyNone THEN Raise(ack.exception)
    ELSE IF ack.result # PyNone THEN Ret(ack.result)
    ELSE Ret(PyNone)

\* what the calling method does with the outcome of its forwarded call
\* where the with-statement stands when the method it called is over: the body is
\* entered when __enter__ returned and skipped (without __exit__) when it raised
BlockAfter(h, out) ==
    CASE h.block = "enter" /\ out.kind = "return" -> "body"
      [] h.block = "enter" /\ out.kind = "raise" -> "failed"
      [] h.block = "exit" -> "left"
      [] OTHER -> h.block

AfterCall(h, out) ==
    CASE h.frame = "__enter__" /\ out.kind = "return" ->
           [h EXCEPT !.pc = "idle", !.outcome = Ret(PySelf(h.proxy)),
                     !.block = BlockAfter(h, out)]
      [] h.frame \in {"__exit__", "__del__"} /\ out.kind = "return" ->
           [h EXCEPT !.pc = "terminate"]
      [] OTHER ->
           [h EXCEPT !.pc = "idle", !.outcome = out, !.block = BlockAfter(h, out)]

\* _wait_for_completion: ack = self.CmdAckQueue.get() blocks until an entry is there
WaitForCompletion(t) ==
    LET p == host[t].proxy
        q == OwnQueues(p)
    IN
    /\ host[t].pc = "wait"
    /\ CmdAckQueue[q] # <<>>
    /\ LET entry == QueueFront(CmdAckQueue[q])
           ack == UnpickleAck(entry.obj)
       IN  /\ CmdAckQueue' = [CmdAckQueue EXCEPT ![q] = QueueRest(@)]
           /\ received' = [received EXCEPT ![p] = @ + 1]
           /\ host' = [host EXCEPT ![t] = AfterCall([@ EXCEPT !.got = entry.tag, !.src = entry.src],
                                                    Completion(ack))]
    /\ UNCHANGED <<CmdQueue, runner, worker, issued, executed, instantiated>>

\* a terminate() that sends no signal
TerminateNoop(proc) == proc

\* the thread is interrupted (KeyboardInterrupt) while it blocks in CmdAckQueue.get():
\* the call raises; its command stays where it is and its ack will still be put
Interrupt(t) ==
    /\ host[t].pc = "wait"
    /\ host' = [host EXCEPT ![t] = [@ EXCEPT !.pc = "idle", !.got = 0, !.src = NoOutcome,
                     !.outcome = Raise(BuiltinError("KeyboardInterrupt", "")),
                     !.block = BlockAfter(host[t], Raise(BuiltinError("KeyboardInterrupt", "")))]]
    /\ UNCHANGED <<CmdQueue, CmdAckQueue, runner, worker, issued, executed, received,
                   instantiated>>

\* Process.terminate(): SIGTERM to the process if it has not exited yet
Terminate(proc) == IF IsAlive(proc) THEN [proc EXCEPT !.sigterm = TRUE] ELSE proc

\* second line of __exit__: self.runner.terminate(), and __exit__ returns None
RunnerTerminate(t) ==
    LET p == host[t].proxy IN
    /\ host[t].pc = "terminate"
    /\ runner' = [runner EXCEPT ![p] = Terminate(@)]
    /\ host' = [host EXCEPT ![t] = [@ EXCEPT !.pc = "idle", !.outcome = Ret(PyNone),
                                              !.block = BlockAfter(host[t], Ret(PyNone))]]
    /\ UNCHANGED <<CmdQueue, CmdAckQueue, worker, issued, executed, received, instantiated>>

(***************************************************************************)
(* Worker side: MultiAPI._runner in the child process.                     *)
(***************************************************************************)
\* workers that live in one process: the end of one is the end of all
ProcessExitAll(p, cause) ==
    /\ runner' = [q \in Proxies |->
                     IF IsAlive(runner[q]) THEN [runner[q] EXCEPT !.state = "stopped"]
                     ELSE runner[q]]
    /\ worker' = [q \in Proxies |->
                     IF IsAlive(runner[q])
                     THEN [worker[q] EXCEPT !.pc = "exited", !.cmd = NoCommand,
                                            !.tag = 0, !.exit = cause]
                     ELSE worker[q]]

\* the process of proxy p ends: only its own Process object and _runner are concerned
ProcessExit(p, cause) ==
    /\ runner' = [runner EXCEPT ![p] = [@ EXCEPT !.state = "stopped"]]
    /\ worker' = [worker EXCEPT ![p] = [@ EXCEPT !.pc = "exited", !.cmd = NoCommand,
                      !.tag = 0, !.exit = cause]]

\* a worker that builds its API for a fixed family
ApiSetupDefault(proc) == "NRF51"

\* the device_family _runner hands to _api_setup: the one in the args of the Process
ApiSetupArgs(proc) == proc.args

\* api = self._api_setup(...): API.__init__ raises ValueError for an unknown family and
\* RuntimeError when the DLL cannot be located or loaded; the process then ends
ApiSetup(p) ==
    /\ IsAlive(runner[p])
    /\ worker[p].pc = "setup"
    /\ \/ /\ ApiSetupArgs(runner[p]) \in DeviceFamily
          /\ worker' = [worker EXCEPT ![p] = [@ EXCEPT !.pc = "get", !.apis = @ + 1,
                                                      !.family = ApiSetupArgs(runner[p])]]
          /\ UNCHANGED runner
       \/ ProcessExit(p, "setup")
    /\ UNCHANGED <<CmdQueue, CmdAckQueue, host, issued, executed, received, instantiated>>

\* cmd = self.CmdQueue.get()
WorkerGet(p) ==
    /\ IsAlive(runner[p])
    /\ worker[p].pc = "get"
    /\ CmdQueue[OwnQueues(p)] # <<>>
    /\ LET entry == QueueFront(CmdQueue[OwnQueues(p)]) IN
       /\ executed' = [executed EXCEPT ![p] = @ + 1]
       /\ worker' = [worker EXCEPT ![p] = [@ EXCEPT !.pc = "exec",
                         !.cmd = UnpickleCommand(entry.obj), !.tag = entry.tag]]
       /\ CmdQueue' = [CmdQueue EXCEPT ![OwnQueues(p)] = QueueRest(@)]
    /\ UNCHANGED <<CmdAckQueue, runner, host, issued, received, instantiated>>

\* res = api_functions[cmd.cmd](...): KeyError for a name that is no method of api
RunCommand(c) ==
    IF c.cmd \in ApiMembers
    THEN ApiCall(c.cmd, c.args)
    ELSE { Raise(BuiltinError("KeyError", c.cmd)) }

\* except Exception as e: _CommandAck(exception=e)   else: _CommandAck(result=res)
AckOf(out) ==
    IF out.kind = "raise" THEN CommandAck(out.val, PyNone) ELSE CommandAck(PyNone, out.val)

\* a handler that lets the KeyError of the lookup through
CaughtNotLookup(e) == e.cls \in {"APIError", "ValueError", "RuntimeError", "AttributeError"}

\* a handler written as "except APIError"
CaughtAPIErrorOnly(e) == e.cls = "APIError"

\* except Exception: the classes used here that derive from Exception
Caught(e) == e.cls \in {"APIError", "ValueError", "KeyError", "RuntimeError", "AttributeError"}

\* API.open / API.close on the instance
Opened(c, out, was) ==
    CASE c.cmd \in {"open", "__enter__"} /\ out.kind = "return" -> TRUE
      [] c.cmd \in {"close", "__exit__"} -> FALSE
      [] OTHER -> was

\* the try / except / else of the loop: run the command and put the ack; an
\* exception the except clause does not catch ends the process
WorkerExec(p) ==
    /\ IsAlive(runner[p])
    /\ worker[p].pc = "exec"
    /\ \E out \in RunCommand(worker[p].cmd) :
         IF out.kind = "raise" /\ ~Caught(out.val)
         THEN /\ ProcessExit(p, "uncaught")
              /\ UNCHANGED CmdAckQueue
         ELSE /\ CmdAckQueue' = [CmdAckQueue EXCEPT ![OwnQueues(p)] =
                                    QueueSend(@, AckOf(out), worker[p].tag, out)]
              /\ worker' = [worker EXCEPT ![p] = [@ EXCEPT !.pc = "get",
                                !.opened = Opened(worker[p].cmd, out, @),
                                !.cmd = NoCommand, !.tag = 0,
                                !.raised = @ \/ out.kind = "raise"]]
              /\ UNCHANGED runner
    /\ UNCHANGED <<CmdQueue, host, issued, executed, received, instantiated>>

\* the SIGTERM of Process.terminate() ends the process
SigtermDelivered(p) ==
    /\ IsAlive(runner[p])
    /\ runner[p].sigterm
    /\ ProcessExit(p, "signal")
    /\ UNCHANGED <<CmdQueue, CmdAckQueue, host, issued, executed, received, instantiated>>

\* the process crashes or is killed from outside
Kill(p) ==
    /\ IsAlive(runner[p])
    /\ ~runner[p].sigterm
    /\ ProcessExit(p, "signal")
    /\ UNCHANGED <<CmdQueue, CmdAckQueue, host, issued, executed, received, instantiated>>

(***************************************************************************)
(* Specifications.                                                         *)
(***************************************************************************)
HostStep(t, P, I) ==
    \/ \E p \in P, f \in FamilyArgs : MultiAPIInit(t, p, f)
    \/ \E p \in P, inv \in I : Invoke(t, p, inv[1], inv[2])
    \/ \E p \in P : Enter(t, p)
    \/ \E p \in P : Exit(t, p)
    \/ WaitForCompletion(t)
    \/ RunnerTerminate(t)

WorkerStep(p) ==
    \/ ApiSetup(p)
    \/ WorkerGet(p)
    \/ WorkerExec(p)
    \/ SigtermDelivered(p)
    \/ Kill(p)

\* what the threads that share a proxy invoke on it
SharedInvocations ==
    { inv \in Invocations : inv[1] \in {"read_u32", "write_u32"} /\ IsU32(inv[2][1]) }

\* two host threads share one proxy
Next ==
    \/ \E t \in Threads : HostStep(t, {"A"}, SharedInvocations)
    \/ \E p \in {"A"} : WorkerStep(p)

Spec == Init /\ [][Next]_vars

\* one host thread drives one proxy
NextSeq ==
    \/ \E t \in {"t1"} : HostStep(t, {"A"}, Invocations)
    \/ \E p \in {"A"} : WorkerStep(p)

SpecSeq == Init /\ [][NextSeq]_vars

\* the host also holds an API instance of its own
NextFork ==
    \/ \E t \in {"t1"} : LowLevelInit(t)
    \/ NextSeq

SpecFork == Init /\ [][NextFork]_vars

\* one host thread drives one proxy and may be interrupted while it waits
NextInt ==
    \/ Interrupt("t1")
    \/ NextSeq

SpecInt == Init /\ [][NextInt]_vars

\* one host thread feeds the worker loop commands of its own making
NextRaw ==
    \/ \E f \in FamilyArgs : MultiAPIInit("t1", "A", f)
    \/ \E c \in RawCommands : RawCall("t1", "A", c[1], c[2])
    \/ WaitForCompletion("t1")
    \/ ApiSetup("A")
    \/ WorkerGet("A")
    \/ WorkerExec("A")
    \/ Kill("A")

SpecRaw == Init /\ [][NextRaw]_vars

\* what the thread of the life-cycle specification invokes
LifeInvocations ==
    { <<"open", <<>> >>, <<"close", <<>> >>, <<"read_u32", <<PyInt(0)>> >> }

\* one host thread uses a proxy and then drops it
NextLife ==
    \/ HostStep("t1", {"A"}, LifeInvocations)
    \/ Del("t1", "A")
    \/ DelClose("t1")
    \/ WorkerStep("A")

SpecLife == Init /\ [][NextLife]_vars

\* one host thread uses one proxy in a with-statement
NextWith ==
    \/ \E f \in FamilyArgs : MultiAPIInit("t1", "A", f)
    \/ WithEnter("t1", "A")
    \/ \E inv \in Invocations : WithBody("t1", "A", inv[1], inv[2])
    \/ WithExit("t1", "A")
    \/ WaitForCompletion("t1")
    \/ RunnerTerminate("t1")
    \/ WorkerStep("A")

SpecWith == Init /\ [][NextWith]_vars

\* two proxies, each driven by a host thread of its own
NextTwo ==
    \/ HostStep("t1", {"A"}, SharedInvocations)
    \/ HostStep("t2", {"B"}, SharedInvocations)
    \/ \E p \in Proxies : WorkerStep(p)

SpecTwo == Init /\ [][NextTwo]_vars

(***************************************************************************)
(* Properties.                                                             *)
(***************************************************************************)
\* a host thread whose last forwarded call has taken its ack
Completed(t) == host[t].got # 0

\* C1: when two host threads issue overlapping forwarded calls on one proxy,
\* each call takes the ack produced for its own command, never the ack produced
\* for the other thread's command.
C1_OwnResult ==
    \A t \in Threads : Completed(t) => host[t].got = host[t].tag

\* C2: at most one command of a proxy is in flight: a second command is never
\* put on CmdQueue while an earlier command of the same proxy is unanswered.
C2_OneInFlight ==
    \A p \in Proxies : issued[p] - received[p] <= 1

\* C3: commands are executed in the order they were put and the acks are taken
\* in that same order: the i-th command the worker takes is the i-th command put,
\* and the i-th ack the host takes is the ack of the i-th command put.
C3_Fifo ==
    \A p \in Proxies :
        /\ \A k \in 1..Len(CmdQueue[p]) : CmdQueue[p][k].tag = executed[p] + k
        /\ worker[p].pc = "exec" => worker[p].tag = executed[p]
        /\ \A k \in 1..Len(CmdAckQueue[p]) : CmdAckQueue[p][k].tag = received[p] + k
        /\ received[p] <= executed[p] /\ executed[p] <= issued[p]

\* two commands were queued by two threads and both results have been taken in order
C3_Witness ==
    \E t, u \in Threads :
        /\ t # u /\ host[t].proxy = "A" /\ host[u].proxy = "A"
        /\ host[t].got = 1 /\ host[u].got = 2 /\ host[u].tag = 2 /\ host[t].tag = 1
        /\ received["A"] = 2

\* C4: an error raised by the operation in the worker is raised by the host-side
\* call with the same class and exactly the message it carried in the worker.
C4_SameError ==
    \A t \in Threads :
        (Completed(t) /\ host[t].src.kind = "raise") =>
            /\ host[t].outcome.kind = "raise"
            /\ host[t].outcome.val.cls = host[t].src.val.cls
            /\ Message(host[t].outcome.val) = Message(host[t].src.val)

\* C5: a forwarded call whose operation returned v in the worker returns exactly
\* v on the host (also 0, False and the empty list); when the operation returned
\* nothing, the host-side call returns None.
C5_ReturnsValue ==
    \A t \in Threads :
        (Completed(t) /\ host[t].pc = "idle" /\ host[t].frame \in MultiAPIMethods) =>
            /\ host[t].got = host[t].tag
            /\ host[t].src.kind = "return" => host[t].outcome = Ret(host[t].src.val)

\* read(0, 0) returned the empty list in the worker and the host call returned it
C5_Witness ==
    /\ host["t1"].pc = "idle" /\ host["t1"].frame = "read"
    /\ host["t1"].src = Ret(PyList(<<>>))
    /\ host["t1"].outcome = Ret(PyList(<<>>))

\* C6: once __exit__ has terminated the worker and the process has ended, a
\* forwarded call fails fast: it puts no command on CmdQueue.
C6_FailFast ==
    [][\A p \in Proxies :
          (runner[p].sigterm /\ ~IsAlive(runner[p])) => issued'[p] = issued[p]]_vars

\* C7: a call that waits for its ack while the worker process is dead does not
\* stay blocked: it can take a step that ends the wait.
C7_WaitEnds ==
    \A t \in Threads :
        (host[t].pc = "wait" /\ ~IsAlive(runner[host[t].proxy])) =>
            ENABLED WaitForCompletion(t)

\* C8: an error raised by an operation never ends the worker loop: it is sent
\* back as an ack that carries the exception, and a later call still takes the
\* ack of its own command.
C8_ErrorsCaught ==
    \A p \in Proxies :
        /\ worker[p].exit # "uncaught"
        /\ worker[p].raised /\ IsAlive(runner[p]) => worker[p].pc \in {"get", "exec"}
        /\ \A k \in 1..Len(CmdAckQueue[p]) :
              CmdAckQueue[p][k].src.kind = "raise" <=>
                  UnpickleAck(CmdAckQueue[p][k].obj).exception # PyNone
        /\ \A t \in Threads : Completed(t) /\ host[t].proxy = p => host[t].got = host[t].tag

\* the second call of a thread returned its own result after an earlier command raised
C8_Witness ==
    /\ worker["A"].raised
    /\ host["t1"].pc = "idle" /\ host["t1"].tag = 2 /\ host["t1"].got = 2
    /\ host["t1"].src.kind = "return" /\ host["t1"].outcome.kind = "return"

\* the thread's last invocation named no operation of the API
InvokedUnknown(t) == host[t].frame \notin ApiFunctions \cup {"-", "__enter__", "__exit__"}

UnknownNames == { inv[1] : inv \in Invocations } \ ApiFunctions

C10_ExitIdempotent ==
    [][\A t \in Threads, p \in Proxies :
          (runner[p].sigterm /\ ~IsAlive(runner[p]) /\ host[t].pc = "idle"
             /\ host'[t].frame = "__exit__" /\ host'[t].proxy = p /\ host'[t] # host[t]) =>
              /\ CmdQueue'[p] = CmdQueue[p]
              /\ host'[t].pc = "idle"]_vars

\* C11: from the construction of the proxy until terminate() has completed the
\* worker process is alive, and in every state after that it is not alive.
\* Stated for a worker that did not end on its own account (no failed set-up, no
\* crash): it is alive exactly as long as no terminate() has completed.
C11_AliveUntilTerminated ==
    \A p \in Proxies :
        (Constructed(p) /\ (worker[p].exit = "-" \/ runner[p].sigterm))
            => (IsAlive(runner[p]) <=> ~runner[p].sigterm)

\* the command of the call thread t waits for is on its way through the queues and
\* the worker of proxy p
InPipeline(t, p) ==
    \/ \E k \in 1..Len(CmdQueue[p]) : CmdQueue[p][k].tag = host[t].tag
    \/ worker[p].pc = "exec" /\ worker[p].tag = host[t].tag
    \/ \E k \in 1..Len(CmdAckQueue[p]) : CmdAckQueue[p][k].tag = host[t].tag

\* C12: a call on one proxy travels through that proxy's own queues and worker
\* only, so it is sent, executed and completed whatever state a call on another
\* proxy is in: while the worker of its proxy lives, the call is in that proxy's
\* pipeline and its next step (take the command, run it, take the ack) is enabled.
\* Within one proxy the worker runs one command at a time.
C12_IndependentProxies ==
    /\ \A t \in Threads :
          LET p == host[t].proxy IN
          (host[t].pc = "wait" /\ IsAlive(runner[p])) =>
              /\ InPipeline(t, p)
              /\ ENABLED (ApiSetup(p) \/ WorkerGet(p) \/ WorkerExec(p) \/ WaitForCompletion(t))
    /\ \A p \in Proxies :
          executed[p] - received[p] - Len(CmdAckQueue[p]) \in {0, 1}

\* both workers are running a command at the same moment, each for its own thread
C12_Witness ==
    /\ host["t1"].pc = "wait" /\ host["t1"].proxy = "A"
    /\ host["t2"].pc = "wait" /\ host["t2"].proxy = "B"
    /\ worker["A"].pc = "exec" /\ worker["A"].tag = host["t1"].tag
    /\ worker["B"].pc = "exec" /\ worker["B"].tag = host["t2"].tag

\* C13: a step in which the worker process of one proxy ends (crash, failed
\* set-up, signal) changes nothing of the host threads and nothing of any other
\* proxy: the other workers, their processes and their queues stay as they are,
\* and a call completed on another proxy has taken the ack of its own command.
C13_CrashIsolated ==
    [][\A p \in Proxies :
          (IsAlive(runner[p]) /\ ~IsAlive(runner'[p])) =>
              /\ host' = host
              /\ \A q \in Proxies \ {p} :
                    /\ runner'[q] = runner[q] /\ worker'[q] = worker[q]
                    /\ CmdQueue'[q] = CmdQueue[q] /\ CmdAckQueue'[q] = CmdAckQueue[q]
              /\ \A t \in Threads :
                    (host'[t].got # 0 /\ host'[t].proxy # p) => host'[t].got = host'[t].tag]_vars

\* the worker of A has crashed under a call that still waits, and the worker of B
\* is alive and running the second command of its own thread, the first answered
C13_Witness ==
    /\ worker["A"].exit = "signal" /\ ~runner["A"].sigterm
    /\ host["t1"].pc = "wait" /\ host["t1"].proxy = "A"
    /\ IsAlive(runner["B"]) /\ worker["B"].pc = "exec"
    /\ host["t2"].proxy = "B" /\ host["t2"].tag = 2 /\ worker["B"].tag = 2
    /\ received["B"] = 1

\* C14: a with-statement on the proxy has run open in the worker when its body is
\* entered, and when the statement has been left, by the end of the body or by an
\* exception raised in it, close has been run in the worker: the session is not
\* open any more.
C14_WithReleases ==
    \A t \in Threads :
        /\ host[t].block = "body" => worker[host[t].proxy].opened
        /\ host[t].block = "left" =>
              /\ ~worker[host[t].proxy].opened
              /\ host[t].frame = "__exit__" /\ host[t].got = host[t].tag /\ host[t].got # 0

\* the body raised, __exit__ got the exception type, and the block was left closed
C14_Witness ==
    /\ host["t1"].block = "left" /\ host["t1"].exc \notin {"-", "None"}
    /\ ~worker["A"].opened /\ worker["A"].raised

\* C15: a proxy has exactly one worker process, started once; that worker builds
\* at most one API instance, it has built it before it takes its first command,
\* and it builds it for the device family the proxy was constructed with.
C15_OneWorkerOneApi ==
    \A p \in Proxies :
        /\ runner[p].starts <= 1
        /\ Constructed(p) <=> runner[p].starts = 1
        /\ worker[p].apis <= 1
        /\ (worker[p].pc \in {"get", "exec"} \/ executed[p] > 0) => worker[p].apis = 1
        /\ worker[p].apis = 1 => worker[p].family = runner[p].args

\* two commands have been run and the worker still holds the one API it built for
\* the family given to the constructor
C15_Witness ==
    /\ executed["A"] = 2 /\ received["A"] = 2
    /\ runner["A"].starts = 1 /\ runner["A"].args = "NRF52"
    /\ worker["A"].apis = 1 /\ worker["A"].family = "NRF52"

\* C16: where fork is the only way to start a process and the host process has
\* already instantiated an API (the flag is set), constructing a proxy is refused
\* with AlreadyInstantiatedError: no worker process is started.
C16_RefusesWhenInstantiated ==
    [][\A p \in Proxies :
          (StartMethods = {"fork"} /\ instantiated /\ ~Constructed(p)) =>
              /\ ~Constructed(p)'
              /\ runner'[p] = runner[p]]_vars

\* C17: every forwarded call has put exactly one command, and every command put
\* is either still queued or has been taken by the worker exactly once; a command
\* taken is run once and yields at most one ack (exactly one while the worker
\* lives).  Nothing is put or run a second time, also after a command raised.
C17_ExactlyOnce ==
    /\ host["t1"].calls + host["t2"].calls = issued["A"] + issued["B"]
    /\ \A p \in Proxies :
          LET running == IF worker[p].pc = "exec" THEN 1 ELSE 0
              acks == received[p] + Len(CmdAckQueue[p])
          IN  /\ executed[p] + Len(CmdQueue[p]) = issued[p]
              /\ acks + running <= executed[p]
              /\ worker[p].exit = "-" => acks + running = executed[p]

\* the first command raised in the worker; two calls were made and the counts
\* stand at two puts, two runs, two acks, with both queues empty
C17_Witness ==
    /\ worker["A"].raised /\ worker["A"].pc = "get"
    /\ host["t1"].calls + host["t2"].calls = 2
    /\ issued["A"] = 2 /\ executed["A"] = 2 /\ received["A"] = 2
    /\ CmdQueue["A"] = <<>> /\ CmdAckQueue["A"] = <<>>

\* C18: the command put for a call of an API operation carries the name of the
\* method called and the arguments of the call, in their order; the command the
\* worker runs is that same name with those same arguments in that same order.
C18_ForwardedAsCalled ==
    \A t \in Threads :
        LET p == host[t].proxy IN
        (host[t].pc = "wait" /\ host[t].frame \in ApiFunctions) =>
            /\ \A k \in 1..Len(CmdQueue[p]) :
                  CmdQueue[p][k].tag = host[t].tag =>
                      /\ CmdQueue[p][k].obj.cmd = host[t].frame
                      /\ [a \in DOMAIN CmdQueue[p][k].obj.args |->
                              Unpickle(CmdQueue[p][k].obj.args[a])] = host[t].args
            /\ (worker[p].pc = "exec" /\ worker[p].tag = host[t].tag) =>
                  /\ worker[p].cmd.cmd = host[t].frame
                  /\ worker[p].cmd.args = host[t].args

\* write_u32(0, 48879, True) is being run by the worker with these three arguments
C18_Witness ==
    /\ host["t1"].pc = "wait" /\ host["t1"].frame = "write_u32"
    /\ worker["A"].pc = "exec" /\ worker["A"].tag = host["t1"].tag
    /\ worker["A"].cmd.cmd = "write_u32"
    /\ worker["A"].cmd.args = <<PyInt(0), PyInt(48879), PyBool(TRUE)>>

\* C19: the step that constructs a proxy starts its worker process (a daemon) and
\* returns at once without raising: the constructing thread does not wait, nothing
\* is put on or taken from either queue, and the worker has not yet built its API.
C19_ConstructsWithoutHandshake ==
    [][\A p \in Proxies :
          (~Constructed(p) /\ Constructed(p)') =>
              /\ IsAlive(runner'[p]) /\ runner'[p].daemon /\ runner'[p].starts = 1
              /\ worker'[p].pc = "setup" /\ worker'[p].apis = 0
              /\ CmdQueue'[p] = <<>> /\ CmdAckQueue'[p] = <<>>
              /\ issued' = issued /\ executed' = executed /\ received' = received
              /\ \A t \in Threads : host'[t].pc = host[t].pc /\ host'[t].outcome = host[t].outcome]_vars

\* the proxy for NRF52 exists and its thread goes on, while API.__init__ has failed
\* in the worker; no command was ever exchanged
C19_Witness ==
    /\ Constructed("A") /\ runner["A"].args = "NRF52"
    /\ worker["A"].exit = "setup" /\ worker["A"].apis = 0
    /\ host["t1"].pc = "idle" /\ host["t1"].outcome = NoOutcome
    /\ issued["A"] = 0 /\ received["A"] = 0

\* C20: the termination at the end of __exit__ returns only after the worker
\* process has exited, having signalled it and closed both queues: in the state
\* in which the terminating thread goes on, the process is not alive.
C20_TerminateWaitsForExit ==
    [][\A t \in Threads :
          (host[t].pc = "terminate" /\ host'[t].pc = "idle") =>
              ~IsAlive(runner'[host[t].proxy])]_vars

\* C21: when __del__ of a proxy is over, no worker of it is left running
\* unsignalled: its process has exited or terminate() has sent it the signal.
C21_DelTerminates ==
    \A t \in Threads :
        (host[t].frame = "__del__" /\ host[t].pc = "idle") =>
            (~IsAlive(runner[host[t].proxy]) \/ runner[host[t].proxy].sigterm)

\* __del__ found the worker alive, closed the session and terminated the process
C21_Witness ==
    /\ host["t1"].frame = "__del__" /\ host["t1"].pc = "idle"
    /\ host["t1"].got # 0 /\ host["t1"].got = host["t1"].tag
    /\ runner["A"].sigterm /\ worker["A"].apis = 1

\* C22: when the operation the worker ran returned the session object itself
\* (API.__enter__ returns self), the worker puts an ack whose result is None, so
\* that the host-side call returns None.
C22_SessionReplacedByNone ==
    [][\A p \in Proxies :
          (worker[p].pc = "exec" /\ worker[p].cmd.cmd = "__enter__"
             /\ ~worker[p].opened /\ worker'[p].opened) =>
              /\ Len(CmdAckQueue'[p]) = Len(CmdAckQueue[p]) + 1
              /\ UnpickleAck(CmdAckQueue'[p][Len(CmdAckQueue'[p])].obj) = CommandAck(PyNone, PyNone)]_vars

\* the worker of p ends the run of a command that names no method of its API,
\* and not because the process was killed
RanUnknown(p) ==
    /\ worker[p].pc = "exec" /\ worker[p].cmd.cmd \notin ApiMembers
    /\ worker'[p].pc # "exec" /\ worker'[p].exit # "signal"

\* the ack the worker of p has just put
LastAck(p) == UnpickleAck(CmdAckQueue'[p][Len(CmdAckQueue'[p])].obj)

\* C23 as stated: a command whose name is absent from the worker's lookup is
\* answered with UnknownOperationError, and the loop goes on.
C23_UnknownOperationReported ==
    [][\A p \in Proxies :
          RanUnknown(p) =>
              /\ IsAlive(runner'[p]) /\ worker'[p].pc = "get"
              /\ Len(CmdAckQueue'[p]) = Len(CmdAckQueue[p]) + 1
              /\ LastAck(p).exception # PyNone
              /\ LastAck(p).exception.cls = "UnknownOperationError"]_vars

\* C23 amended: a command whose name is absent from the worker's lookup is
\* answered with one ack that carries the KeyError of the lookup, whose argument
\* is the name, and no result; the process stays alive and the loop is back at
\* CmdQueue.get().
C23_KeyErrorReported ==
    [][\A p \in Proxies :
          RanUnknown(p) =>
              /\ IsAlive(runner'[p]) /\ worker'[p].pc = "get"
              /\ Len(CmdAckQueue'[p]) = Len(CmdAckQueue[p]) + 1
              /\ LastAck(p).exception # PyNone
              /\ LastAck(p).exception.cls = "KeyError"
              /\ LastAck(p).exception.args = <<PyStr(worker[p].cmd.cmd)>>
              /\ LastAck(p).result = PyNone
              /\ CmdAckQueue'[p][Len(CmdAckQueue'[p])].tag = worker[p].tag]_vars

\* the host call that put the unknown command has raised the KeyError of the
\* worker, and the worker is alive and back at CmdQueue.get()
C23_Witness ==
    /\ host["t1"].pc = "idle" /\ host["t1"].got # 0 /\ host["t1"].got = host["t1"].tag
    /\ host["t1"].outcome.kind = "raise" /\ host["t1"].outcome.val.cls = "KeyError"
    /\ Message(host["t1"].outcome.val) = "bogus"
    /\ IsAlive(runner["A"]) /\ worker["A"].pc = "get" /\ worker["A"].raised

\* C24: the API instance is built, opened and closed by steps of the worker process
\* only, never by a step of a host thread; open() and close() called on the proxy
\* put a command of that name on CmdQueue and wait, like any other operation.
C24_SessionInWorkerOnly ==
    [][\A p \in Proxies :
          /\ (worker'[p].opened # worker[p].opened \/ worker'[p].apis # worker[p].apis) =>
                /\ host' = host
                /\ IsAlive(runner[p]) /\ worker[p].pc \in {"setup", "exec"}
          /\ \A t \in Threads :
                (host[t].pc = "idle" /\ host'[t] # host[t] /\ host'[t].proxy = p
                   /\ host'[t].frame \in {"open", "close"}) =>
                    /\ host'[t].pc = "wait"
                    /\ Len(CmdQueue'[p]) = Len(CmdQueue[p]) + 1
                    /\ CmdQueue'[p][Len(CmdQueue'[p])].obj.cmd = host'[t].frame
                    /\ CmdQueue'[p][Len(CmdQueue'[p])].tag = host'[t].tag
                    /\ worker' = worker]_vars

\* open() called on the proxy has been run by the worker and has returned
C24_Witness ==
    /\ host["t1"].frame = "open" /\ host["t1"].pc = "idle"
    /\ host["t1"].got # 0 /\ host["t1"].got = host["t1"].tag
    /\ host["t1"].outcome = Ret(PyNone)
    /\ worker["A"].opened /\ worker["A"].apis = 1

\* C25: the process of every proxy that has been constructed carries the daemon
\* flag, set before the process was started: no worker is ever running, or has
\* run, as a non-daemon process.
C25_Daemon ==
    \A p \in Proxies : Constructed(p) => runner[p].daemon

\* the workers of two proxies are running, both as daemons
C25_Witness ==
    /\ IsAlive(runner["A"]) /\ IsAlive(runner["B"])
    /\ runner["A"].daemon /\ runner["B"].daemon
    /\ worker["A"].pc = "get" /\ worker["B"].pc = "get"

\* C26: all forwarded calls of all host threads on one proxy go through one and
\* the same guard, made once on the first call: two threads are never both
\* between the put of their command and the take of their ack on the same proxy.
C26_OneGuard ==
    \A t, u \in Threads :
        (t # u /\ host[t].pc = "wait" /\ host[u].pc = "wait") =>
            host[t].proxy # host[u].proxy

\* C27: __exit__ terminates the worker process on every path through it: whenever
\* the wait for the ack of its close() ends, with a result or with an error, the
\* next thing the thread does is self.runner.terminate().
C27_ExitAlwaysTerminates ==
    [][\A t \in Threads :
          (host[t].frame = "__exit__" /\ host[t].pc = "wait" /\ host'[t].pc # "wait") =>
              host'[t].pc = "terminate"]_vars

\* C29: after a call was interrupted between the put of its command and the take
\* of its ack, a later call of the thread on the same proxy takes the ack of its
\* own command and returns what its own command returned.
C29_OwnAckAfterInterrupt ==
    \A t \in Threads :
        (host[t].pc = "idle" /\ host[t].got # 0
           /\ issued[host[t].proxy] > 1 /\ host[t].frame \in ApiFunctions) =>
            /\ host[t].got = host[t].tag
            /\ host[t].got = issued[host[t].proxy]

\* C28: a __del__ that runs after __exit__ has requested the termination of the
\* worker never waits for an ack that no worker will put: if it waits for the ack
\* of its close() while the process has ended, that ack is in CmdAckQueue.
C28_DelNeverBlocks ==
    \A t \in Threads :
        LET p == host[t].proxy IN
        (host[t].frame = "__del__" /\ host[t].pc = "wait"
           /\ runner[p].sigterm /\ ~IsAlive(runner[p])) =>
            \E k \in 1..Len(CmdAckQueue[p]) : CmdAckQueue[p][k].tag = host[t].tag

\* the threads that stand in a call on proxy p
Waiting(p) == {t \in Threads : host[t].pc = "wait" /\ host[t].proxy = p}

\* C30: every command put through a proxy is in that proxy's CmdQueue or was taken
\* by that proxy's worker, and every ack taken by a caller of a proxy was put by
\* that proxy's worker for a command of that proxy; the command a worker runs is
\* the one the waiting caller of its proxy sent.  With one thread per proxy, both
\* queues of a proxy are empty while no call is in progress on it, and during a
\* call they hold at most one message in total, which belongs to that call.
C30_QueuesPerProxy ==
    \A p \in Proxies :
        /\ executed[p] + Len(CmdQueue[p]) = issued[p]
        /\ received[p] + Len(CmdAckQueue[p]) <= executed[p]
        /\ worker[p].pc = "exec" =>
              \E t \in Waiting(p) :
                  /\ worker[p].tag = host[t].tag
                  /\ worker[p].cmd.args = host[t].args
        /\ \A t \in Threads :
              (host[t].proxy = p /\ host[t].got # 0) => host[t].got = host[t].tag
        /\ Waiting(p) = {} => (CmdQueue[p] = <<>> /\ CmdAckQueue[p] = <<>>)
        /\ Len(CmdQueue[p]) + Len(CmdAckQueue[p]) <= 1
        /\ \A t \in Waiting(p) :
              /\ \A k \in 1..Len(CmdQueue[p]) : CmdQueue[p][k].tag = host[t].tag
              /\ \A k \in 1..Len(CmdAckQueue[p]) : CmdAckQueue[p][k].tag = host[t].tag

\* both proxies are in their second call at once: the command of A is still in
\* A's CmdQueue while the ack of B is in B's CmdAckQueue, each the only message
C30_Witness ==
    /\ host["t1"].pc = "wait" /\ host["t1"].proxy = "A" /\ host["t1"].tag = 2
    /\ host["t2"].pc = "wait" /\ host["t2"].proxy = "B" /\ host["t2"].tag = 2
    /\ Len(CmdQueue["A"]) = 1 /\ CmdAckQueue["A"] = <<>> /\ received["A"] = 1
    /\ CmdQueue["B"] = <<>> /\ Len(CmdAckQueue["B"]) = 1 /\ received["B"] = 1

====
